---------------------------- MODULE Spec2Model ----------------------------
(***************************************************************************)
(* Install & patch orchestrator of the launcher (electron/utils/game):     *)
(* installGame (install.ts), its helpers downloadPWR and applyPWR, the     *)
(* patch-tool bootstrap installButler (butler.ts) and the hot-patch step   *)
(* patchOnlineClientIfNeeded (onlinePatch.ts), over one game root.         *)
(*                                                                         *)
(* The helpers of ./paths, ./manifest, ./check and ./jre are imported by   *)
(* install.ts but their files are not among the sources; they are modelled *)
(* from the specification (sections 4.1, 4.2, 4.6 and 6).                  *)
(*                                                                         *)
(* Environment: directory operations (mkdir, rename and rm of a directory, *)
(* the manifest write) succeed; deleting a file, chmod, renaming or copying*)
(* a file, hashing a file, every network transfer and the spawn of the     *)
(* patch tool can fail.                                                    *)
(***************************************************************************)
EXTENDS Integers, Sequences, FiniteSets, TLC

\* ------------------------------------------------------------- bounds
\* build_index ranges over 1..MaxBuild
MaxBuild == 2
\* invocations (installGame or patchOnlineClientIfNeeded) started in one run
MaxOps == 2
\* largest content-length header value and largest number of body bytes
MaxContentLength == 2
MaxBody == 2
\* stdout lines read from one patch-tool process
MaxLines == 1
\* distinct file contents a remote can serve for the hot-patch
NContents == 2

\* ------------------------------------------------------------- domains
Builds == 1..MaxBuild
Types == {"release", "pre-release"}
Platforms == {"win32", "linux"}
Procs == {1, 2}
Phases == {"pwr-download", "patching", "online-patch"}

\* GameVersion (vite-env.d.ts): the fields installGame reads
Versions == [type : Types, build_index : Builds, isLatest : BOOLEAN]

\* no ProgressEvent of a phase was emitted yet (percent is -1 or more)
NoEvent == 0 - 2

\* ------------------------------------------------------------- paths
NoPath == <<"none", 0>>
getLatestDir == <<"release", 0>>
getReleaseBuildDir(n) == <<"release", n>>
getPreReleaseBuildDir(n) == <<"pre-release", n>>
DirIds == {getLatestDir} \cup (Types \X Builds)

resolveInstallDir(version) ==
    IF version.type = "release"
    THEN IF version.isLatest THEN getLatestDir
         ELSE getReleaseBuildDir(version.build_index)
    ELSE getPreReleaseBuildDir(version.build_index)

\* ------------------------------------------------------------- directories
\* the last run of the patch tool against a directory (build 0: none)
NoRun == [build |-> 0, ok |-> FALSE]

NoDir == [exists |-> FALSE, manifest |-> 0, client |-> FALSE, server |-> FALSE,
          origin |-> NoPath, tool |-> NoRun]

\* a directory just created at path d by mkdirSync
EmptyDir(d) == [NoDir EXCEPT !.exists = TRUE, !.origin = d]

\* temp_<build_index>.pwr in the game root
\* (build: the build whose artifact it holds; by: the process that wrote it)
NoFile == [exists |-> FALSE, build |-> 0, by |-> 0, complete |-> FALSE]


\* ------------------------------------------------------------- numbers
\* Math.round of the non-negative quotient num/den: halves round up
MathRound(num, den) == (2 * num + den) \div (2 * den)

\* the content-length header of a response: absent, not a number, or a number
ContentLengthHeaders ==
    {[kind |-> "absent", n |-> 0], [kind |-> "text", n |-> 0]}
    \cup {[kind |-> "num", n |-> k] : k \in 0..MaxContentLength}

Undefined == [kind |-> "undefined", n |-> 0]
NaN == [kind |-> "nan", n |-> 0]
Num(k) == [kind |-> "num", n |-> k]

parseInt(h) == IF h.kind = "num" THEN Num(h.n) ELSE NaN

\* downloadPWR: contentLength ? parseInt(contentLength, 10) : undefined
PwrTotalLength(h) == IF h.kind = "absent" THEN Undefined ELSE parseInt(h)

\* downloadFileWithProgress: contentLength ? parseInt(contentLength, 10) : 0
PatchTotalLength(h) == IF h.kind = "absent" THEN Num(0) ELSE parseInt(h)

\* JavaScript truthiness of a number or undefined
Truthy(t) == t.kind = "num" /\ t.n # 0

\* a start event that always reports 0 percent
PwrStartPercentZero(totalLength) == 0

\* percent of the start event: totalLength ? 0 : -1
PwrStartPercent(totalLength) == IF Truthy(totalLength) THEN 0 ELSE -1

\* percent of a data event of downloadPWR after downloadedLength bytes
PwrDataPercent(downloadedLength, totalLength) ==
    IF totalLength.kind = "num" /\ totalLength.n > 0
    THEN MathRound(downloadedLength * 100, totalLength.n)
    ELSE -1

\* percent of the start and of a data event of downloadFileWithProgress
PatchStartPercent(totalLength) ==
    IF totalLength.kind = "num" /\ totalLength.n > 0 THEN 0 ELSE -1

PatchDataPercent(downloadedLength, totalLength) ==
    IF totalLength.kind = "num" /\ totalLength.n > 0
    THEN MathRound(downloadedLength * 100, totalLength.n)
    ELSE -1

\* ------------------------------------------------------------- butler stdout
\* A JSON number is kept in thousandths (500 is 0.5, 100000 is 100).
NotNumber == [isNum |-> FALSE, v |-> 0]
Number(v) == [isNum |-> TRUE, v |-> v]

\* the values of `type`: absent or not a string, and three strings
TypeValues == {"", "log", "progress", "Patch-Progress"}

\* type.toLowerCase()
toLowerCase(type) ==
    CASE type = "Patch-Progress" -> "patch-progress"
      [] OTHER -> type

\* s.includes("progress")
includesProgress(s) == s \in {"progress", "patch-progress"}

\* one stdout line: blank, not JSON, or a JSON record with these fields
Lines ==
    {[kind |-> "blank", type |-> "", percentage |-> NotNumber,
      percent |-> NotNumber, progress |-> NotNumber],
     [kind |-> "text", type |-> "", percentage |-> NotNumber,
      percent |-> NotNumber, progress |-> NotNumber]}
    \cup [kind : {"json"}, type : TypeValues,
          percentage : {NotNumber, Number(500), Number(150000)},
          percent : {NotNumber, Number(-2000), Number(1000)},
          progress : {NotNumber, Number(0), Number(4), Number(42500)}]

\* no line has reached the handler yet
NoLine ==
    [kind |-> "none", type |-> "", percentage |-> NotNumber,
     percent |-> NotNumber, progress |-> NotNumber]

isProgress(obj) ==
    \/ includesProgress(toLowerCase(obj.type))
    \/ obj.percentage.isNum
    \/ obj.percent.isNum

\* the value read from percentage, else percent, else progress
RawPercent(obj) ==
    IF obj.percentage.isNum THEN obj.percentage
    ELSE IF obj.percent.isNum THEN obj.percent
    ELSE IF obj.progress.isNum THEN obj.progress
    ELSE NotNumber

\* if (percent > 0 && percent <= 1) percent = percent * 100
Normalize(v) == IF v > 0 /\ v <= 1000 THEN v * 100 ELSE v

Max(a, b) == IF a >= b THEN a ELSE b
Min(a, b) == IF a <= b THEN a ELSE b

\* Math.max(0, Math.min(100, percent))
Clamp(v) == Max(0, Min(100000, v))

\* a line handler that forwards fractions as they are
DecodeLineUnscaled(line) ==
    IF line.kind # "json" THEN NoEvent
    ELSE IF ~isProgress(line) THEN NoEvent
    ELSE IF ~RawPercent(line).isNum THEN NoEvent
    ELSE MathRound(Clamp(RawPercent(line).v), 1000)

\* the line handler of applyPWR: the percent it sends, or NoEvent
DecodeLine(line) ==
    IF line.kind # "json" THEN NoEvent
    ELSE IF ~isProgress(line) THEN NoEvent
    ELSE IF ~RawPercent(line).isNum THEN NoEvent
    ELSE MathRound(Clamp(Normalize(RawPercent(line).v)), 1000)

\* ------------------------------------------------------------- hashes
\* File contents are 1..NContents; a hash is a sequence of characters.
Contents == 1..NContents

\* hash.digest("hex") of a file holding content c: lower-case hex digits
HexDigits == <<"1", "b", "c", "4", "5", "6">>
sha256Hex(c) == IF c \in 1..Len(HexDigits) THEN <<"a", HexDigits[c]>> ELSE <<>>

IsSpace(ch) == ch \in {" ", "\n"}

RECURSIVE TrimLeft(_)
TrimLeft(s) == IF s # <<>> /\ IsSpace(Head(s)) THEN TrimLeft(Tail(s)) ELSE s

RECURSIVE TrimRight(_)
TrimRight(s) ==
    IF s # <<>> /\ IsSpace(s[Len(s)])
    THEN TrimRight(SubSeq(s, 1, Len(s) - 1)) ELSE s

trim(s) == TrimRight(TrimLeft(s))

UpperChar(ch) ==
    CASE ch = "a" -> "A" [] ch = "b" -> "B" [] ch = "c" -> "C" [] OTHER -> ch

toUpperCase(s) == [i \in 1..Len(s) |-> UpperChar(s[i])]

normalizeHash(h) == toUpperCase(trim(h))


\* ------------------------------------------------------------- state
VARIABLES
    platform,      \* process.platform
    dirs,          \* the install directories of the game root, by path
    legacy,        \* game/<type>/{Client,Server}: the legacy layout, by type
    tempPWR,       \* temp_<build_index>.pwr of the game root, by build_index
    hpTemp,        \* temp_online_patch_<build_index> beside the legacy client
    jreInstalled,  \* the managed runtime is present in the game root
    butlerBin,     \* the patch tool binary is present in the tools directory
    inv,           \* the invocations of installGame, by process
    hp,            \* the invocation of patchOnlineClientIfNeeded
    ops            \* invocations started so far

vars == <<platform, dirs, legacy, tempPWR, hpTemp, jreInstalled, butlerBin,
          inv, hp, ops>>

NoVersion == [type |-> "none", build_index |-> 0, isLatest |-> FALSE]

NoLegacy == [exists |-> FALSE, manifest |-> 0, client |-> 0, server |-> FALSE]

\* a hot-patch temp file holding the bytes of an unfinished download
Partial == 0 - 1

NoProgress == [ph \in Phases |-> NoEvent]

\* an invocation of installGame that has not started
IdleInv ==
    [pc |-> "idle", version |-> NoVersion, installDir |-> NoPath,
     client |-> FALSE, server |-> FALSE, jre |-> FALSE,
     alreadyOnThisBuild |-> FALSE, installedManifest |-> 0,
     tempPWRPath |-> 0, butlerPath |-> FALSE,
     totalLength |-> Undefined, downloadedLength |-> 0, lines |-> 0,
     childPending |-> FALSE,
     \* the last stdout line of butler and what its handler sent
     line |-> NoLine, lineEvent |-> NoEvent,
     \* what the window received
     started |-> FALSE, progress |-> NoProgress, current |-> NoEvent,
     finished |-> 0, finishedWith |-> NoVersion, errors |-> 0, errMsg |-> "",
     afterTerminal |-> 0, ret |-> "none",
     \* how the invocation just before it, with the same version, ended
     \* ("none": this one is not such a repetition), and its patch cycles
     repeats |-> "none", cyclesBefore |-> 0,
     \* what the invocation did
     retired |-> "none", chmod |-> "none", netCalls |-> 0, downloads |-> 0, spawns |-> 0,
     manifestWrites |-> 0, faults |-> {}, steps |-> <<>>,
     beforeRetire |-> [d \in DirIds |-> NoDir]]


\* ------------------------------------------------------------- ./paths
LegacyPath(type) == <<type, 0 - 1>>

\* where the legacy install of a channel goes: the latest directory for a
\* release, the numbered directory of its manifest for a pre-release
MigrateTarget(type, leg) ==
    IF type = "release" THEN getLatestDir
    ELSE IF leg.manifest # 0 THEN getPreReleaseBuildDir(leg.manifest)
    ELSE NoPath

\* the move is guarded: a legacy install exists and its target does not
NeedsMigration(ds, leg, type) ==
    /\ leg[type].exists
    /\ MigrateTarget(type, leg[type]) # NoPath
    /\ ~ds[MigrateTarget(type, leg[type])].exists

MigratedDir(type, l) ==
    [exists |-> TRUE, manifest |-> l.manifest, client |-> l.client # 0,
     server |-> l.server, origin |-> LegacyPath(type),
     tool |-> IF l.manifest # 0 THEN [build |-> l.manifest, ok |-> TRUE]
              ELSE NoRun]

\* migrateLegacyChannelInstallIfNeeded(gameDir, type): the directories after
MigrateDirs(ds, leg, type) ==
    IF NeedsMigration(ds, leg, type)
    THEN [ds EXCEPT ![MigrateTarget(type, leg[type])] =
                        MigratedDir(type, leg[type])]
    ELSE ds

\* ... and the legacy layout after
MigrateLegacy(ds, leg, type) ==
    IF NeedsMigration(ds, leg, type)
    THEN [leg EXCEPT ![type] = NoLegacy]
    ELSE leg

\* ------------------------------------------------------------- ./manifest
\* readInstallManifest(installDir): the build_index recorded, 0 when absent
readInstallManifest(ds, installDir) ==
    IF ds[installDir].exists THEN ds[installDir].manifest ELSE 0

\* writeInstallManifest(installDir, version)
writeInstallManifest(dir, version) ==
    [dir EXCEPT !.manifest = version.build_index]

\* ------------------------------------------------------------- ./check
\* checkGameInstallation(gameDir, version): the binaries of the install
\* directory of this version, and the runtime of the game root
checkClient(ds, version) ==
    ds[resolveInstallDir(version)].exists /\ ds[resolveInstallDir(version)].client

checkServer(ds, version) ==
    ds[resolveInstallDir(version)].exists /\ ds[resolveInstallDir(version)].server

\* ------------------------------------------------------------- retirement
\* a retirement that does not look at the target's channel or is_latest
MustRetireAnyTarget(ds, version) ==
    /\ ds[getLatestDir].exists
    /\ readInstallManifest(ds, getLatestDir) # 0
    /\ readInstallManifest(ds, getLatestDir) # version.build_index

\* installGame, lines 235-239: an older build occupies the latest directory
MustRetire(ds, version) ==
    /\ version.type = "release"
    /\ version.isLatest
    /\ ds[getLatestDir].exists
    /\ readInstallManifest(ds, getLatestDir) # 0
    /\ readInstallManifest(ds, getLatestDir) # version.build_index

\* a retirement that renames over an existing build-M directory
RetireLatestOverwrite(ds) ==
    [ds EXCEPT ![getReleaseBuildDir(readInstallManifest(ds, getLatestDir))] =
                   ds[getLatestDir],
               ![getLatestDir] = NoDir]

\* lines 243-257: delete the latest directory when build-M exists, else move it
RetireLatest(ds) ==
    LET targetBuildDir ==
            getReleaseBuildDir(readInstallManifest(ds, getLatestDir))
    IN  IF ds[targetBuildDir].exists
        THEN [ds EXCEPT ![getLatestDir] = NoDir]
        ELSE [ds EXCEPT ![targetBuildDir] = ds[getLatestDir],
                        ![getLatestDir] = NoDir]

RetireKind(ds) ==
    IF ds[getReleaseBuildDir(readInstallManifest(ds, getLatestDir))].exists
    THEN "deleted" ELSE "moved"

Retire(ds, version) == IF MustRetire(ds, version) THEN RetireLatest(ds) ELSE ds

\* ------------------------------------------------------------- outcomes
Step(r, name) == [r EXCEPT !.steps = Append(@, name)]

\* lines 341-344: send install-finished with the version, return true
Finish(r) ==
    [Step(r, "install-finished") EXCEPT
        !.pc = "done", !.finished = @ + 1, !.finishedWith = r.version,
        !.ret = "true"]

\* a catch block that returns false and sends nothing
FailSilently(r, msg) ==
    [Step(r, "catch") EXCEPT !.pc = "done", !.ret = "false"]

\* lines 345-352: send install-error with the message, return false
Fail(r, msg) ==
    [Step(r, "install-error") EXCEPT
        !.pc = "done", !.errors = @ + 1, !.errMsg = msg, !.ret = "false"]

\* a ProgressEvent of a phase reaches the window
Emit(r, phase, percent) ==
    [r EXCEPT !.progress[phase] = percent,
              !.afterTerminal = IF r.ret # "none" THEN @ + 1 ELSE @]

\* a decision that looks at the manifest only, and one that looks at the
\* binaries only
PatchRequiredManifestOnly(r) == ~r.alreadyOnThisBuild
PatchRequiredBinariesOnly(r) == ~r.client \/ ~r.server
\* ... and one that always patches
PatchRequiredAlways(r) == TRUE

\* lines 282 and 312: the patch has to be downloaded and applied
PatchRequired(r) == ~r.alreadyOnThisBuild \/ ~r.client \/ ~r.server

\* lines 280-339 up to the first real wait: with butler present installButler
\* returns its path at once and downloadPWR starts its fetch
AfterJRE(r, haveButler) ==
    IF PatchRequired(r)
    THEN IF haveButler
         THEN [Step(r, "installButler") EXCEPT !.pc = "fetchPWR",
                                               !.butlerPath = TRUE]
         ELSE [r EXCEPT !.pc = "installButler"]
    ELSE Finish(r)

\* ------------------------------------------------------------- installGame
\* one temp.pwr in the game root, whatever the build
getTempPWRPathShared(version) == 1

\* downloadPWR line 52: temp_<build_index>.pwr in the game root; the files
\* are told apart by the build index
getTempPWRPath(version) == version.build_index

\* lines 228-278: migrate, retire, resolve, check, read the manifest, send
\* install-started; then wait for the runtime installer or go on
StartInstall(p, version, repeats, cyclesBefore) ==
    /\ LET migrated == MigrateDirs(dirs, legacy, version.type)
           retired == Retire(migrated, version)
           installDir == resolveInstallDir(version)
           installedManifest == readInstallManifest(retired, installDir)
           r0 == [IdleInv EXCEPT
                    !.version = version,
                    !.installDir = installDir,
                    !.client = checkClient(retired, version),
                    !.server = checkServer(retired, version),
                    !.jre = jreInstalled,
                    !.installedManifest = installedManifest,
                    !.alreadyOnThisBuild =
                        installedManifest = version.build_index,
                    !.tempPWRPath = getTempPWRPath(version),
                    !.beforeRetire = migrated,
                    !.retired = IF MustRetire(migrated, version)
                                THEN RetireKind(migrated) ELSE "none",
                    !.steps = IF MustRetire(migrated, version)
                              THEN <<"retire", "install-started">>
                              ELSE <<"install-started">>,
                    !.started = TRUE,
                    !.repeats = repeats,
                    !.cyclesBefore = cyclesBefore]
       IN  /\ dirs' = retired
           /\ legacy' = MigrateLegacy(dirs, legacy, version.type)
           /\ inv' = [inv EXCEPT ![p] =
                        IF ~jreInstalled
                        THEN [r0 EXCEPT !.pc = "installJRE"]
                        ELSE AfterJRE(r0, butlerBin)]
    /\ UNCHANGED <<platform, tempPWR, hpTemp, jreInstalled, butlerBin, hp>>

\* an invocation out of the MaxOps that are counted
BeginInstall(p, version, repeats, cyclesBefore) ==
    /\ ops < MaxOps
    /\ StartInstall(p, version, repeats, cyclesBefore)
    /\ ops' = ops + 1

\* the caller invokes installGame(gameDir, version, win)
InstallGameBegin(p, version) ==
    /\ inv[p].pc = "idle"
    /\ BeginInstall(p, version, "none", 0)

\* installGame has returned, no callback of it is pending, and the caller
\* invokes it again with the same version
InstallGameAgain(p) ==
    /\ inv[p].pc = "done"
    /\ ~inv[p].childPending
    /\ BeginInstall(p, inv[p].version,
                    IF inv[p].finished > 0 THEN "finished" ELSE "error",
                    inv[p].spawns)

\* installGame has returned with install-error and the caller invokes it
\* again with the same version, as often as it takes
Reinvoke(p) ==
    /\ inv[p].pc = "done"
    /\ ~inv[p].childPending
    /\ inv[p].errors > 0
    /\ StartInstall(p, inv[p].version, "error", inv[p].spawns)
    /\ UNCHANGED ops

\* ./jre installJRE(gameDir, win) returns a path or nothing (lines 273-278)
InstallJREReturns(p, ok) ==
    /\ inv[p].pc = "installJRE"
    /\ jreInstalled' = (jreInstalled \/ ok)
    /\ inv' = [inv EXCEPT ![p] =
                 IF ok THEN AfterJRE(Step(@, "installJRE"), butlerBin)
                 ELSE Fail([@ EXCEPT !.faults = @ \cup {"jre"}],
                           "Failed to install JRE")]
    /\ UNCHANGED <<platform, dirs, legacy, tempPWR, hpTemp, butlerBin, hp, ops>>


\* installButler (butler.ts) when the binary is absent: download the archive,
\* extract it, chmod, delete the archive; any throw makes it return null.
\* "cleanup-failed": the binary was extracted and a later step threw.
ButlerOutcomes == {"installed", "download-failed", "cleanup-failed"}

\* an installGame that does not test the path installButler returns
InstallButlerReturnsUnchecked(p, outcome) ==
    /\ inv[p].pc = "installButler"
    /\ butlerBin' = (butlerBin \/ outcome # "download-failed")
    /\ inv' = [inv EXCEPT ![p] =
                 LET r == [@ EXCEPT !.netCalls = @ + 1]
                 IN  [Step(IF outcome = "installed" THEN r
                           ELSE [r EXCEPT !.faults = @ \cup {"butler"}],
                           "installButler")
                        EXCEPT !.pc = "fetchPWR", !.butlerPath = TRUE]]
    /\ UNCHANGED <<platform, dirs, legacy, tempPWR, hpTemp, jreInstalled, hp, ops>>

InstallButlerReturns(p, outcome) ==
    /\ inv[p].pc = "installButler"
    /\ butlerBin' = (butlerBin \/ outcome # "download-failed")
    /\ inv' = [inv EXCEPT ![p] =
                 LET r == [@ EXCEPT !.netCalls = @ + 1]
                 IN  IF outcome = "installed"
                     THEN [Step(r, "installButler") EXCEPT
                              !.pc = "fetchPWR", !.butlerPath = TRUE]
                     ELSE Fail([r EXCEPT !.faults = @ \cup {"butler"}],
                               "Failed to install butler")]
    /\ UNCHANGED <<platform, dirs, legacy, tempPWR, hpTemp, jreInstalled, hp, ops>>

\* ------------------------------------------------------------- downloadPWR
\* what fetch(version.url) gives: a rejection, a response that is not ok, a
\* response without a body, or a response with a body
Responses == {"rejected", "not-ok", "no-body", "ok"}

\* lines 58-77 and 100: the response arrives; with a body the start event is
\* sent and the pipeline opens temp_<build_index>.pwr. Any throw is caught
\* in downloadPWR, which returns null, and installGame throws (line 290).
PwrResponse(p, response, header) ==
    /\ inv[p].pc = "fetchPWR"
    /\ LET r == [inv[p] EXCEPT !.netCalls = @ + 1]
           totalLength == PwrTotalLength(header)
       IN  IF response = "ok"
           THEN /\ inv' = [inv EXCEPT ![p] =
                     [Emit(r, "pwr-download", PwrStartPercent(totalLength))
                        EXCEPT !.pc = "streamPWR",
                               !.totalLength = totalLength,
                               !.downloadedLength = 0,
                               !.current = 0]]
                /\ tempPWR' = [tempPWR EXCEPT ![r.tempPWRPath] =
                     [exists |-> TRUE, build |-> r.version.build_index,
                      by |-> p, complete |-> FALSE]]
           ELSE /\ inv' = [inv EXCEPT ![p] =
                     Fail([r EXCEPT !.faults = @ \cup {"download"}],
                          "Failed to download PWR")]
                /\ UNCHANGED tempPWR
    /\ UNCHANGED <<platform, dirs, legacy, hpTemp, jreInstalled, butlerBin, hp, ops>>

\* lines 80-94: a chunk of n bytes passes the progress stream
PwrData(p, n) ==
    /\ inv[p].pc = "streamPWR"
    /\ inv[p].downloadedLength + n <= MaxBody
    /\ inv' = [inv EXCEPT ![p] =
         LET downloadedLength == @.downloadedLength + n
         IN  [Emit(@, "pwr-download",
                   PwrDataPercent(downloadedLength, @.totalLength))
                EXCEPT !.downloadedLength = downloadedLength,
                       !.current = downloadedLength]]
    /\ UNCHANGED <<platform, dirs, legacy, tempPWR, hpTemp, jreInstalled,
                   butlerBin, hp, ops>>

\* the pipeline rejects in the middle of the body: the partial file stays,
\* downloadPWR returns null (lines 113-119)
PwrStreamError(p) ==
    /\ inv[p].pc = "streamPWR"
    /\ inv' = [inv EXCEPT ![p] =
         Fail([@ EXCEPT !.faults = @ \cup {"download"}],
              "Failed to download PWR")]
    /\ UNCHANGED <<platform, dirs, legacy, tempPWR, hpTemp, jreInstalled,
                   butlerBin, hp, ops>>

\* ------------------------------------------------------------- applyPWR
\* lines 130-133: the install directory exists after mkdirSync
EnsureDir(ds, d) == IF ds[d].exists THEN ds ELSE [ds EXCEPT ![d] = EmptyDir(d)]

\* a downloadPWR that returns the path without awaiting the pipeline: butler
\* is spawned on a file that is still being written
PwrSpawnEarly(p) ==
    /\ inv[p].pc = "streamPWR"
    /\ dirs' = EnsureDir(dirs, inv[p].installDir)
    /\ inv' = [inv EXCEPT ![p] =
         LET r2 == Step(Emit(@, "patching", 0 - 1), "spawn")
         IN  [r2 EXCEPT !.pc = "butlerRunning", !.spawns = @ + 1, !.lines = 0]]
    /\ UNCHANGED <<platform, legacy, tempPWR, hpTemp, jreInstalled, butlerBin,
                   hp, ops>>

\* lines 103-112, then applyPWR lines 128-157: the pipeline resolves, the
\* final download event is sent, the directories are made, the first
\* patching event is sent and butler is spawned on the file at tempPWRPath
PwrEndAndSpawn(p) ==
    /\ inv[p].pc = "streamPWR"
    /\ tempPWR' = [tempPWR EXCEPT ![inv[p].tempPWRPath].complete = TRUE]
    /\ dirs' = EnsureDir(dirs, inv[p].installDir)
    /\ inv' = [inv EXCEPT ![p] =
         LET r1 == Step(Emit(@, "pwr-download", 100), "downloadPWR")
             r2 == Step(Emit(r1, "patching", -1), "spawn")
         IN  [r2 EXCEPT !.pc = "butlerRunning", !.downloads = @ + 1,
                        !.spawns = @ + 1, !.lines = 0,
                        \* the locals of downloadPWR are gone
                        !.totalLength = Undefined, !.downloadedLength = 0,
                        !.current = NoEvent]]
    /\ UNCHANGED <<platform, legacy, hpTemp, jreInstalled, butlerBin, hp, ops>>

\* lines 166-199: one line of butler's stdout
ButlerLine(p, line) ==
    /\ inv[p].pc = "butlerRunning"
    /\ inv[p].lines < MaxLines
    /\ inv' = [inv EXCEPT ![p] =
         LET r == [@ EXCEPT !.lines = @ + 1, !.line = line,
                            !.lineEvent = DecodeLine(line)]
         IN  IF DecodeLine(line) = NoEvent THEN r
             ELSE Emit(r, "patching", DecodeLine(line))]
    /\ UNCHANGED <<platform, dirs, legacy, tempPWR, hpTemp, jreInstalled,
                   butlerBin, hp, ops>>

\* an 'error' handler that logs and does not reject
ButlerErrorLogged(p) ==
    /\ inv[p].pc = "butlerRunning"
    /\ inv[p].lines = 0
    /\ "spawn" \notin inv[p].faults
    /\ inv' = [inv EXCEPT ![p].faults = @ \cup {"spawn"}]
    /\ UNCHANGED <<platform, dirs, legacy, tempPWR, hpTemp, jreInstalled,
                   butlerBin, hp, ops>>

\* lines 151-157: the process could not be spawned; 'error' rejects the
\* promise and installGame's catch reports it. 'close' is still to come.
ButlerError(p) ==
    /\ inv[p].pc = "butlerRunning"
    /\ inv[p].lines = 0
    /\ inv' = [inv EXCEPT ![p] =
         [Fail([@ EXCEPT !.faults = @ \cup {"spawn"}], "spawn ENOENT")
            EXCEPT !.childPending = TRUE]]
    /\ UNCHANGED <<platform, dirs, legacy, tempPWR, hpTemp, jreInstalled,
                   butlerBin, hp, ops>>

\* lines 209-219 after 'error': 'close' of the process that never ran
ButlerCloseAfterError(p) ==
    /\ inv[p].pc = "done"
    /\ inv[p].childPending
    /\ inv' = [inv EXCEPT ![p] =
         [Emit(@, "patching", 100) EXCEPT !.childPending = FALSE]]
    /\ UNCHANGED <<platform, dirs, legacy, tempPWR, hpTemp, jreInstalled,
                   butlerBin, hp, ops>>

\* What a finished run of butler left in the install directory: exit code 0
\* materializes the client and the server; another exit code leaves the
\* directory as it was ("none") or with the client only ("client").
ExitEffects(code) == IF code = 0 THEN {"all"} ELSE {"none", "client"}

ToolRun(dir, artifact, code, effect) ==
    [dir EXCEPT
        !.client = @ \/ effect \in {"all", "client"},
        !.server = @ \/ effect = "all",
        !.tool = [build |-> artifact.build, ok |-> code = 0]]

\* ensureClientExecutable (lines 24-43) on the client of the directory:
\* what it did. mode is what statSync reports of the owner's executable bit
\* and chmodOk whether chmodSync succeeds; every throw is swallowed.
ensureClientExecutable(dir, mode, chmodOk) ==
    IF platform = "win32" THEN "not-needed"
    ELSE IF ~dir.client THEN "ignored"
    ELSE IF mode THEN "not-needed"
    ELSE IF chmodOk THEN "chmod"
    ELSE "ignored"


\* an install that records nothing
RecordInstallSkipped(dir, version) == dir

\* lines 303-304: record the build in the install directory
RecordInstall(dir, version) == writeInstallManifest(dir, version)

\* an installGame without the unlinkSync of the artifact
ButlerCloseKeepsArtifact(p, code, effect, unlinkOk, mode, chmodOk) ==
    /\ inv[p].pc = "butlerRunning"
    /\ effect \in ExitEffects(code)
    /\ LET r == inv[p]
           r1 == [Step(Emit(r, "patching", 100), "exit") EXCEPT !.lines = 0]
           applied == ToolRun(dirs[r.installDir], tempPWR[r.tempPWRPath],
                              code, effect)
       IN  /\ tempPWR' = tempPWR
           /\ dirs' = [dirs EXCEPT ![r.installDir] =
                         RecordInstall(applied, r.version)]
           /\ inv' = [inv EXCEPT ![p] =
                Finish([Step(Step(Step(r1, "unlink"), "manifest"),
                             "ensureClientExecutable")
                          EXCEPT !.manifestWrites = @ + 1,
                                 !.chmod = ensureClientExecutable(
                                               applied, mode, chmodOk)])]
    /\ UNCHANGED <<platform, legacy, hpTemp, jreInstalled, butlerBin, hp, ops>>

\* lines 209-219: butler exits with any code; the final patching event is
\* sent and the promise resolves. Then installGame, lines 298-308 and 341-344
\* (328-335 in the re-patch branch): delete the artifact, write the manifest,
\* restore the executable bit, finish. unlinkSync is not guarded: its throw
\* reaches the catch of installGame.
ButlerClose(p, code, effect, unlinkOk, mode, chmodOk) ==
    /\ inv[p].pc = "butlerRunning"
    /\ effect \in ExitEffects(code)
    /\ LET r == inv[p]
           r1 == [Step(Emit(r, "patching", 100), "exit") EXCEPT !.lines = 0]
           applied == ToolRun(dirs[r.installDir], tempPWR[r.tempPWRPath],
                              code, effect)
           unlinked == unlinkOk /\ tempPWR[r.tempPWRPath].exists
       IN  IF unlinked
           THEN /\ tempPWR' = [tempPWR EXCEPT ![r.tempPWRPath] = NoFile]
                /\ dirs' = [dirs EXCEPT ![r.installDir] =
                              RecordInstall(applied, r.version)]
                /\ inv' = [inv EXCEPT ![p] =
                     Finish([Step(Step(Step(r1, "unlink"), "manifest"),
                                  "ensureClientExecutable")
                               EXCEPT !.manifestWrites = @ + 1,
                                      !.chmod = ensureClientExecutable(
                                                    applied, mode, chmodOk)])]
           ELSE /\ tempPWR' = tempPWR
                /\ dirs' = [dirs EXCEPT ![r.installDir] = applied]
                /\ inv' = [inv EXCEPT ![p] =
                     Fail([r1 EXCEPT !.faults = @ \cup {"unlink"}],
                          "EPERM: operation not permitted, unlink")]
    /\ UNCHANGED <<platform, legacy, hpTemp, jreInstalled, butlerBin, hp, ops>>

\* installGame has returned and no callback of it is pending: the caller
\* may invoke it with another version
InstallGameReturn(p) ==
    /\ inv[p].pc = "done"
    /\ ~inv[p].childPending
    /\ inv' = [inv EXCEPT ![p] = IdleInv]
    /\ UNCHANGED <<platform, dirs, legacy, tempPWR, hpTemp, jreInstalled,
                   butlerBin, hp, ops>>


\* ------------------------------------------------------------- onlinePatch.ts
\* patch_url: undefined, empty or a URL
PatchUrls == {"undefined", "", "https://x/patch.exe"}

\* patch_hash: undefined or a string
NoHash == [defined |-> FALSE, s |-> <<>>]
Hash(s) == [defined |-> TRUE, s |-> s]
PatchHashes ==
    {NoHash, Hash(<<>>), Hash(<<"a", "1">>), Hash(<<"A", "1">>),
     Hash(<<"a", "1", "\n">>), Hash(<<"a", "b">>)}

PatchVersions ==
    [type : Types, build_index : Builds, patch_url : PatchUrls,
     patch_hash : PatchHashes]

NoPatchVersion ==
    [type |-> "none", build_index |-> 0, patch_url |-> "undefined",
     patch_hash |-> NoHash]

\* getClientPath(gameDir, version): game/<type>/Client/<client name>, the
\* client of the legacy layout of the channel
getClientPath(version) == version.type

\* fs.existsSync(clientPath)
ClientExists(leg, clientPath) ==
    leg[clientPath].exists /\ leg[clientPath].client # 0

\* temp_online_patch_<build_index> in the directory of the client
getTempPath(version) == <<version.type, version.build_index>>

\* the snapshot of the files taken when the hot-patch is called
Files == [dirs |-> dirs, legacy |-> legacy, tempPWR |-> tempPWR,
          hpTemp |-> hpTemp]

IdleHp ==
    [pc |-> "idle", version |-> NoPatchVersion, totalLength |-> Num(0),
     downloadedLength |-> 0, progress |-> NoEvent, current |-> NoEvent,
     errors |-> 0, errMsg |-> "", result |-> "none", netCalls |-> 0,
     downloaded |-> 0, downloadedHash |-> <<>>, unlinkTemp |-> "none",
     replaced |-> FALSE,
     \* the operations that threw: into the catch, or swallowed where thrown
     thrown |-> {}, swallowed |-> {},
     before |-> [dirs |-> [d \in DirIds |-> NoDir],
                 legacy |-> [t \in Types |-> NoLegacy],
                 tempPWR |-> [b \in Builds |-> NoFile],
                 hpTemp |-> [k \in Types \X Builds |-> 0]]]

\* a gate without the platform test
GatedAnyPlatform(version, leg) ==
    \/ version.patch_url \in {"undefined", ""}
    \/ ~version.patch_hash.defined
    \/ version.patch_hash.s = <<>>
    \/ ~ClientExists(leg, getClientPath(version))

\* lines 97-108: the step is skipped off Windows, without a URL or a hash,
\* and without a client binary
Gated(version, leg) ==
    \/ platform # "win32"
    \/ version.patch_url \in {"undefined", ""}
    \/ ~version.patch_hash.defined
    \/ version.patch_hash.s = <<>>
    \/ ~ClientExists(leg, getClientPath(version))

\* a catch that sends nothing and throws again
HpFailRethrow(h, msg) == [h EXCEPT !.pc = "done", !.result = "threw"]

\* lines 153-157: the catch sends online-patch-error and returns "skipped"
HpFail(h, msg) ==
    [h EXCEPT !.pc = "done", !.errors = @ + 1, !.errMsg = msg,
              !.result = "skipped"]

\* an operation threw and nothing around it caught the error
Throw(h, op) == [h EXCEPT !.thrown = @ \cup {op}]

\* an operation threw inside a try block or a promise with an empty catch
Swallow(h, op) == [h EXCEPT !.swallowed = @ \cup {op}]

HpBegin(version) ==
    /\ hp.pc = "idle"
    /\ ops < MaxOps
    /\ hp' = LET h == [IdleHp EXCEPT !.version = version, !.before = Files]
             IN  IF Gated(version, legacy)
                 THEN [h EXCEPT !.pc = "done", !.result = "skipped"]
                 ELSE [h EXCEPT !.pc = "hashing"]
    /\ ops' = ops + 1
    /\ UNCHANGED <<platform, dirs, legacy, tempPWR, hpTemp, jreInstalled,
                   butlerBin, inv>>

\* lines 111-121: the hash of the client (null when it cannot be read) is
\* compared; unless it matches, the download starts
HpHashed(readOk) ==
    /\ hp.pc = "hashing"
    /\ hp' = LET clientPath == getClientPath(hp.version)
                 currentHash == sha256Hex(legacy[clientPath].client)
             IN  IF /\ readOk
                    /\ normalizeHash(currentHash)
                         = normalizeHash(hp.version.patch_hash.s)
                 THEN [hp EXCEPT !.pc = "done", !.result = "up-to-date"]
                 ELSE IF readOk THEN [hp EXCEPT !.pc = "fetch"]
                 ELSE [Swallow(hp, "sha256File(clientPath)") EXCEPT
                          !.pc = "fetch"]
    /\ UNCHANGED <<platform, dirs, legacy, tempPWR, hpTemp, jreInstalled,
                   butlerBin, inv, ops>>

\* downloadFileWithProgress, lines 36-79: the response arrives (a fetch that
\* the abort signal ends is a rejection); with a body the start event is
\* sent and the pipeline opens the temp file
HpResponse(response, header) ==
    /\ hp.pc = "fetch"
    /\ LET h == [hp EXCEPT !.netCalls = @ + 1]
           totalLength == PatchTotalLength(header)
       IN  IF response = "ok"
           THEN /\ hp' = [h EXCEPT !.pc = "stream",
                                   !.totalLength = totalLength,
                                   !.downloadedLength = 0,
                                   !.progress = PatchStartPercent(totalLength),
                                   !.current = 0]
                /\ hpTemp' = [hpTemp EXCEPT ![getTempPath(h.version)] = Partial]
           ELSE /\ hp' = HpFail(Throw(h, "downloadFileWithProgress"),
                                IF response = "not-ok"
                                THEN "Failed to download patch: 404"
                                ELSE IF response = "no-body"
                                THEN "No response body"
                                ELSE "fetch failed")
                /\ UNCHANGED hpTemp
    /\ UNCHANGED <<platform, dirs, legacy, tempPWR, jreInstalled, butlerBin,
                   inv, ops>>

\* lines 36-41: no response within FETCH_TIMEOUT_MS; the timer aborts the
\* fetch, which rejects. The timer is cleared when the fetch settles, so it
\* is armed only while the response is awaited.
HpFetchTimeout ==
    /\ hp.pc = "fetch"
    /\ hp' = HpFail(Throw([hp EXCEPT !.netCalls = @ + 1],
                          "downloadFileWithProgress"),
                    "This operation was aborted")
    /\ UNCHANGED <<platform, dirs, legacy, tempPWR, hpTemp, jreInstalled,
                   butlerBin, inv, ops>>

\* lines 50-64: a chunk of n bytes
HpData(n) ==
    /\ hp.pc = "stream"
    /\ hp.downloadedLength + n <= MaxBody
    /\ hp' = LET downloadedLength == hp.downloadedLength + n
             IN  [hp EXCEPT !.downloadedLength = downloadedLength,
                            !.current = downloadedLength,
                            !.progress = PatchDataPercent(downloadedLength,
                                                          hp.totalLength)]
    /\ UNCHANGED <<platform, dirs, legacy, tempPWR, hpTemp, jreInstalled,
                   butlerBin, inv, ops>>

\* the pipeline rejects: the partial temp file stays
HpStreamError ==
    /\ hp.pc = "stream"
    /\ hp' = HpFail(Throw(hp, "downloadFileWithProgress"), "aborted")
    /\ UNCHANGED <<platform, dirs, legacy, tempPWR, hpTemp, jreInstalled,
                   butlerBin, inv, ops>>

\* lines 81-86: the pipeline resolves with content c in the temp file; the
\* final event is sent
HpStreamEnd(c) ==
    /\ hp.pc = "stream"
    /\ hpTemp' = [hpTemp EXCEPT ![getTempPath(hp.version)] = c]
    /\ hp' = [hp EXCEPT !.pc = "verify", !.progress = 100,
                        !.downloaded = c,
                        \* the locals of downloadFileWithProgress are gone
                        !.totalLength = Num(0), !.downloadedLength = 0,
                        !.current = NoEvent]
    /\ UNCHANGED <<platform, dirs, legacy, tempPWR, jreInstalled, butlerBin,
                   inv, ops>>

\* a verification that accepts every file
HashMatchesAlways(downloadedHash, expectedHash) == TRUE

\* line 124: the downloaded file has the expected hash
HashMatches(downloadedHash, expectedHash) ==
    normalizeHash(downloadedHash) = normalizeHash(expectedHash)

\* lines 123-152: hash the temp file; on a mismatch delete it (best effort)
\* and throw; else delete the client (best effort), rename the temp file
\* onto it, or copy it and delete the temp file (best effort)
HpVerify(readOk, unlinkTempOk, unlinkClientOk, renameOk, copyOk) ==
    /\ hp.pc = "verify"
    /\ LET clientPath == getClientPath(hp.version)
           tempPath == getTempPath(hp.version)
           c == hpTemp[tempPath]
           removed == [legacy EXCEPT ![clientPath].client =
                          IF unlinkClientOk THEN 0 ELSE @]
           placed == [legacy EXCEPT ![clientPath].client = c]
           h0 == [hp EXCEPT !.downloadedHash = sha256Hex(c)]
           tried == IF unlinkTempOk THEN "ok" ELSE "failed"
           \* the outcome of unlinkSync(tempPath), of unlinkSync(clientPath)
           \* and of renameSync, where they are called
           T(x) == IF unlinkTempOk THEN x ELSE Swallow(x, "unlinkSync(tempPath)")
           C(x) == IF unlinkClientOk THEN x
                   ELSE Swallow(x, "unlinkSync(clientPath)")
           h == C(h0)
       IN  IF ~readOk
           THEN /\ hp' = HpFail(Throw(hp, "sha256File(tempPath)"),
                                "EBUSY: resource busy, open")
                /\ UNCHANGED <<legacy, hpTemp>>
           ELSE IF ~HashMatches(sha256Hex(c), hp.version.patch_hash.s)
           THEN /\ hp' = HpFail(Throw(T([h0 EXCEPT !.unlinkTemp = tried]),
                                      "hash mismatch"),
                                "Patch hash mismatch (SHA256)")
                /\ hpTemp' = IF unlinkTempOk
                             THEN [hpTemp EXCEPT ![tempPath] = 0] ELSE hpTemp
                /\ UNCHANGED legacy
           ELSE IF renameOk
           THEN /\ hp' = [h EXCEPT !.pc = "done", !.result = "patched",
                                   !.replaced = TRUE]
                /\ legacy' = placed
                /\ hpTemp' = [hpTemp EXCEPT ![tempPath] = 0]
           ELSE IF copyOk
           THEN /\ hp' = [T(Swallow(h, "renameSync")) EXCEPT
                             !.pc = "done", !.result = "patched",
                             !.replaced = TRUE, !.unlinkTemp = tried]
                /\ legacy' = placed
                /\ hpTemp' = IF unlinkTempOk
                             THEN [hpTemp EXCEPT ![tempPath] = 0] ELSE hpTemp
           ELSE /\ hp' = HpFail(Throw(Swallow(h, "renameSync"), "copyFileSync"),
                                "EPERM: operation not permitted, copyfile")
                /\ legacy' = removed
                /\ UNCHANGED hpTemp
    /\ UNCHANGED <<platform, dirs, tempPWR, jreInstalled, butlerBin, inv, ops>>

\* patchOnlineClientIfNeeded has returned
HpReturn ==
    /\ hp.pc = "done"
    /\ hp' = IdleHp
    /\ UNCHANGED <<platform, dirs, legacy, tempPWR, hpTemp, jreInstalled,
                   butlerBin, inv, ops>>


\* ------------------------------------------------------------- specification
\* a legacy install of build 1, as an older launcher left it
LegacyInstall ==
    [exists |-> TRUE, manifest |-> 1, client |-> 1, server |-> TRUE]

\* A game root with no versioned install yet, with or without a legacy
\* install per channel, the runtime present or not, no patch tool yet.
Init ==
    /\ platform \in Platforms
    /\ dirs = [d \in DirIds |-> NoDir]
    /\ legacy \in [Types -> {NoLegacy, LegacyInstall}]
    /\ tempPWR = [b \in Builds |-> NoFile]
    /\ hpTemp = [k \in Types \X Builds |-> 0]
    /\ jreInstalled \in BOOLEAN
    /\ butlerBin = FALSE
    /\ inv = [p \in Procs |-> IdleInv]
    /\ hp = IdleHp
    /\ ops = 0

\* no invocation is in progress
Quiescent == hp.pc = "idle" /\ \A p \in Procs : inv[p].pc = "idle"

\* the steps of one invocation of installGame after its start
\* (headers, chunks, lines: what the remote and the tool may send)
InstallGameStep(p, headers, chunks, lines) ==
    \/ \E ok \in BOOLEAN : InstallJREReturns(p, ok)
    \/ \E outcome \in ButlerOutcomes : InstallButlerReturns(p, outcome)
    \/ \E response \in Responses, header \in headers :
          PwrResponse(p, response, header)
    \/ \E n \in chunks : PwrData(p, n)
    \/ PwrStreamError(p)
    \/ PwrEndAndSpawn(p)
    \/ \E line \in lines : ButlerLine(p, line)
    \/ ButlerError(p)
    \/ ButlerCloseAfterError(p)
    \/ \E code \in {0, 1}, effect \in {"all", "none", "client"},
          unlinkOk \in BOOLEAN, mode \in BOOLEAN, chmodOk \in BOOLEAN :
          ButlerClose(p, code, effect, unlinkOk, mode, chmodOk)
    \/ InstallGameReturn(p)

\* the steps of one invocation of patchOnlineClientIfNeeded after its start
HotPatchStep(headers, chunks) ==
    \/ \E readOk \in BOOLEAN : HpHashed(readOk)
    \/ \E response \in Responses, header \in headers :
          HpResponse(response, header)
    \/ HpFetchTimeout
    \/ \E n \in chunks : HpData(n)
    \/ HpStreamError
    \/ \E c \in Contents : HpStreamEnd(c)
    \/ \E readOk \in BOOLEAN, unlinkTempOk \in BOOLEAN,
          unlinkClientOk \in BOOLEAN, renameOk \in BOOLEAN, copyOk \in BOOLEAN :
          HpVerify(readOk, unlinkTempOk, unlinkClientOk, renameOk, copyOk)
    \/ HpReturn

\* In the orchestration the size of the transfer plays no part: the remote
\* sends no content-length header and chunks of one byte, and the tool
\* prints a line that is no progress record or one that is.
NoHeader == [kind |-> "absent", n |-> 0]
PlainLines ==
    {l \in Lines : /\ l.kind \in {"text", "json"}
                   /\ l.type \in {"", "progress"}
                   /\ ~l.percentage.isNum /\ ~l.percent.isNum
                   /\ l.progress \in {NotNumber, Number(42500)}
                   /\ (l.type = "progress") = l.progress.isNum}

\* One invocation at a time (section 5 of the specification): the caller
\* invokes installGame when nothing else is in progress.
Next ==
    \/ \E version \in Versions : Quiescent /\ InstallGameBegin(1, version)
    \/ InstallGameAgain(1)
    \/ InstallGameStep(1, {NoHeader}, {1}, PlainLines)

Spec == Init /\ [][Next]_vars

\* the hot-patch step alone, one invocation at a time
NextHotPatch ==
    \/ \E version \in PatchVersions : Quiescent /\ HpBegin(version)
    \/ HotPatchStep({NoHeader}, {1})

\* the runtime and the patch tool play no part in it
InitHotPatch == Init /\ ~jreInstalled

SpecHotPatch == InitHotPatch /\ [][NextHotPatch]_vars

\* The progress events of the three phases, for every content-length header,
\* every sequence of chunks and every line of the tool: one pre-release to
\* install, one legacy release client to hot-patch, on Windows (where the
\* hot-patch runs).
ProgressVersion ==
    [type |-> "pre-release", build_index |-> 1, isLatest |-> FALSE]
ProgressPatchVersion ==
    [type |-> "release", build_index |-> 1,
     patch_url |-> "https://x/patch.exe", patch_hash |-> Hash(<<"a", "b">>)]

InitProgress ==
    /\ Init
    /\ platform = "win32"
    /\ legacy = [t \in Types |->
                    IF t = "release" THEN LegacyInstall ELSE NoLegacy]

NextProgress ==
    \/ Quiescent /\ InstallGameBegin(1, ProgressVersion)
    \/ InstallGameAgain(1)
    \/ InstallGameStep(1, ContentLengthHeaders, 1..MaxBody, Lines)
    \/ Quiescent /\ HpBegin(ProgressPatchVersion)
    \/ HotPatchStep(ContentLengthHeaders, 1..MaxBody)

SpecProgress == InitProgress /\ [][NextProgress]_vars

\* The same, with what the event loop guarantees: a timer that is armed
\* fires, a local file operation completes, a function that has finished
\* returns, and 'close' follows 'error'. Nothing makes the remote answer, go
\* on sending or end the body, nor the patch tool print or exit.
FairDownloads ==
    /\ WF_vars(HpFetchTimeout)
    /\ WF_vars(\E readOk \in BOOLEAN : HpHashed(readOk))
    /\ WF_vars(\E readOk \in BOOLEAN, unlinkTempOk \in BOOLEAN,
                  unlinkClientOk \in BOOLEAN, renameOk \in BOOLEAN,
                  copyOk \in BOOLEAN :
                  HpVerify(readOk, unlinkTempOk, unlinkClientOk, renameOk,
                           copyOk))
    /\ WF_vars(HpReturn)
    /\ WF_vars(ButlerCloseAfterError(1))
    /\ WF_vars(InstallGameReturn(1))

SpecDownloads == InitProgress /\ [][NextProgress]_vars /\ FairDownloads

\* Install, then hot-patch, one version: the latest release build 1 with a
\* patch URL and the hash of content 1, on Windows, over a game root with or
\* without a legacy release install.
LaunchVersion == [type |-> "release", build_index |-> 1, isLatest |-> TRUE]
LaunchPatchVersion ==
    [type |-> LaunchVersion.type, build_index |-> LaunchVersion.build_index,
     patch_url |-> "https://x/patch.exe", patch_hash |-> Hash(<<"a", "1">>)]

InitLaunch ==
    /\ Init
    /\ platform = "win32"
    /\ legacy["pre-release"] = NoLegacy

NextLaunch ==
    \/ Quiescent /\ InstallGameBegin(1, LaunchVersion)
    \/ InstallGameStep(1, {NoHeader}, {1}, PlainLines)
    \/ Quiescent /\ HpBegin(LaunchPatchVersion)
    \/ HotPatchStep({NoHeader}, {1})

SpecLaunch == InitLaunch /\ [][NextLaunch]_vars

\* Recovery: invocations in which any collaborator may fail, MaxOps - 1 of
\* them, then re-invocation with the same version for as long as it ends with
\* install-error, the runtime installer, the tool bootstrap, the download
\* and the patch tool succeeding from then on. Nothing is said of the
\* filesystem: unlinkSync may throw or not.
Healed == ops = MaxOps

CollaboratorsSucceed(p) ==
    \/ InstallJREReturns(p, TRUE)
    \/ InstallButlerReturns(p, "installed")
    \/ PwrResponse(p, "ok", NoHeader)
    \/ PwrData(p, 1)
    \/ PwrEndAndSpawn(p)
    \/ \E line \in PlainLines : ButlerLine(p, line)
    \/ \E unlinkOk \in BOOLEAN, mode \in BOOLEAN, chmodOk \in BOOLEAN :
          ButlerClose(p, 0, "all", unlinkOk, mode, chmodOk)

NextRecovery ==
    \/ \E version \in Versions : Quiescent /\ InstallGameBegin(1, version)
    \/ inv[1].errors > 0 /\ InstallGameAgain(1)
    \/ ~Healed /\ InstallGameStep(1, {NoHeader}, {1}, PlainLines)
    \/ Healed /\ CollaboratorsSucceed(1)
    \/ Healed /\ Reinvoke(1)

\* The event loop runs what is ready, and the caller re-invokes; once the
\* collaborators succeed the remote answers and sends the body to its end
\* and the tool exits.
FairRecovery ==
    /\ WF_vars(Healed /\ CollaboratorsSucceed(1))
    /\ WF_vars(Healed /\ Reinvoke(1))

SpecRecovery == Init /\ [][NextRecovery]_vars /\ FairRecovery

\* The same on a filesystem where the deletion of the artifact does not fail
\* for ever.
DeletionSucceeds ==
    SF_vars(Healed /\ \E mode \in BOOLEAN, chmodOk \in BOOLEAN :
                         ButlerClose(1, 0, "all", TRUE, mode, chmodOk))

SpecRecoveryDeleting == SpecRecovery /\ DeletionSucceeds

\* Overlapping invocations: the caller does not wait for the first
\* installGame to return before it invokes the second, for another build
\* index, on the same game root; their steps interleave.
OtherBuilds(p, version) ==
    \A q \in Procs \ {p} :
        inv[q].pc # "idle" => inv[q].version.build_index # version.build_index

NextOverlap ==
    \/ \E p \in Procs, version \in Versions :
          /\ hp.pc = "idle"
          /\ version.type = "release"
          /\ ~version.isLatest
          /\ OtherBuilds(p, version)
          /\ InstallGameBegin(p, version)
    \/ \E p \in Procs : InstallGameStep(p, {NoHeader}, {1}, PlainLines)

InitOverlap == Init /\ platform = "linux" /\ legacy = [t \in Types |-> NoLegacy]

SpecOverlap == InitOverlap /\ [][NextOverlap]_vars

\* ------------------------------------------------------------- properties
\* the invocations that have started and not yet been forgotten
Active == {p \in Procs : inv[p].pc # "idle"}
\* those that have returned
Returned == {p \in Active : inv[p].pc = "done"}

\* C1: an invocation that repeats the one just before it, with the same
\* version and the runtime present, the first having ended with
\* install-finished and nothing having touched the disk in between, makes no
\* network call, spawns no patch tool, writes no manifest and ends with
\* install-finished; the two invocations run at most one download+patch
\* cycle in all (none when the build was installed before the first).
C1_Idempotence ==
    \A p \in Returned :
        inv[p].repeats = "finished" /\ inv[p].jre =>
            /\ inv[p].netCalls = 0
            /\ inv[p].spawns = 0
            /\ inv[p].manifestWrites = 0
            /\ inv[p].finished = 1
            /\ inv[p].cyclesBefore + inv[p].spawns <= 1

\* What the code does guarantee of such a repetition: with the client and
\* the server binaries present in the install directory it does nothing but
\* finish; with a binary missing it cannot finish without a download+patch
\* cycle of its own.
IdempotentWhenComplete ==
    \A p \in Active :
        inv[p].repeats = "finished" =>
            IF inv[p].client /\ inv[p].server
            THEN /\ inv[p].pc = "done"
                 /\ inv[p].netCalls = 0
                 /\ inv[p].spawns = 0
                 /\ inv[p].manifestWrites = 0
                 /\ inv[p].finished = 1
                 /\ inv[p].errors = 0
                 /\ inv[p].cyclesBefore + inv[p].spawns <= 1
            ELSE inv[p].finished = 1 =>
                     /\ inv[p].downloads = 1
                     /\ inv[p].spawns = 1
                     /\ inv[p].manifestWrites = 1

\* a repetition after a full install that did nothing but finish
RepeatedAfterFullInstall ==
    \E p \in Returned :
        /\ inv[p].repeats = "finished"
        /\ inv[p].cyclesBefore = 1
        /\ inv[p].client /\ inv[p].server
        /\ inv[p].finished = 1
        /\ inv[p].netCalls = 0

\* C2: an invocation that read no manifest, or a manifest of another build,
\* from its install directory - or that found an older build in the latest
\* directory it installs to - and ends with install-finished has downloaded
\* the artifact once, then applied it once, and leaves the manifest of the
\* install directory at the target build_index.
SubSeqOf(small, s) ==
    \E i \in 0..(Len(s) - Len(small)) :
        \A k \in 1..Len(small) : s[i + k] = small[k]

C2_VersionMismatchForcesPatch ==
    \A p \in Returned :
        /\ inv[p].finished = 1
        /\ \/ inv[p].installedManifest # inv[p].version.build_index
           \/ inv[p].retired # "none"
        => /\ inv[p].downloads = 1
           /\ inv[p].spawns = 1
           /\ SubSeqOf(<<"downloadPWR", "spawn", "exit", "unlink", "manifest">>,
                       inv[p].steps)
           /\ dirs[inv[p].installDir].exists
           /\ dirs[inv[p].installDir].manifest = inv[p].version.build_index

\* the latest directory held another build, and now holds the target
C2_Witness ==
    \E p \in Returned :
        /\ inv[p].finished = 1
        /\ inv[p].retired # "none"
        /\ inv[p].beforeRetire[getLatestDir].manifest
              # inv[p].version.build_index
        /\ inv[p].installDir = getLatestDir
        /\ dirs[getLatestDir].manifest = inv[p].version.build_index

\* C3: the patch step is skipped only when the manifest matches the target
\* and both binaries are present; with a matching manifest and a binary
\* missing, an invocation that finishes has downloaded and applied the patch
\* and rewritten the manifest.
C3_SkipOnlyWhenComplete ==
    \A p \in Active :
        /\ inv[p].finished = 1 /\ inv[p].spawns = 0 =>
              /\ inv[p].alreadyOnThisBuild
              /\ inv[p].installedManifest = inv[p].version.build_index
              /\ inv[p].client /\ inv[p].server
        /\ /\ inv[p].alreadyOnThisBuild
           /\ ~(inv[p].client /\ inv[p].server)
           /\ inv[p].finished = 1
           => /\ inv[p].downloads = 1
              /\ inv[p].spawns = 1
              /\ inv[p].manifestWrites = 1
              /\ dirs[inv[p].installDir].manifest = inv[p].version.build_index

\* a matching manifest, a binary missing, and the patch applied again
C3_Witness ==
    \E p \in Returned :
        /\ inv[p].alreadyOnThisBuild
        /\ ~(inv[p].client /\ inv[p].server)
        /\ inv[p].finished = 1
        /\ inv[p].spawns = 1

\* C4: an invocation for a latest release that finds in the latest directory
\* a manifest of another build M retires it first: with no build-M directory
\* the content is moved there, with one the latest content is deleted and
\* build-M is left as it was; the latest directory no longer holds build M.
RetirePrecondition(p) ==
    /\ inv[p].version.type = "release"
    /\ inv[p].version.isLatest
    /\ inv[p].beforeRetire[getLatestDir].exists
    /\ inv[p].beforeRetire[getLatestDir].manifest
          \notin {0, inv[p].version.build_index}

C4_RetirementOfLatest ==
    \A p \in Active :
        RetirePrecondition(p) =>
            LET before == inv[p].beforeRetire
                M == before[getLatestDir].manifest
                buildM == <<"release", M>>
            IN  /\ Head(inv[p].steps) = "retire"
                /\ IF before[buildM].exists
                   THEN dirs[buildM] = before[buildM]
                   ELSE dirs[buildM] = before[getLatestDir]
                /\ ~(dirs[getLatestDir].exists
                     /\ dirs[getLatestDir].manifest = M)

\* build-M existed with other content than the latest directory
C4_Witness ==
    \E p \in Active :
        /\ RetirePrecondition(p)
        /\ LET before == inv[p].beforeRetire
               buildM == <<"release", before[getLatestDir].manifest>>
           IN  /\ before[buildM].exists
               /\ before[buildM] # before[getLatestDir]
               /\ ~dirs[getLatestDir].exists

\* C5 (as stated): the manifest is written only after the patch tool exited
\* successfully; a directory with a manifest of build N holds the complete
\* result of applying build N.
C5_ManifestOnlyAfterSuccess ==
    /\ \A p \in Active :
          inv[p].manifestWrites > 0 =>
              dirs[inv[p].installDir].tool =
                  [build |-> inv[p].version.build_index, ok |-> TRUE]
    /\ \A d \in DirIds :
          dirs[d].exists /\ dirs[d].manifest # 0 =>
              /\ dirs[d].tool = [build |-> dirs[d].manifest, ok |-> TRUE]
              /\ dirs[d].client /\ dirs[d].server

\* C6: an invocation that returned has sent exactly one terminal event:
\* install-finished with the version and a true result when no step failed,
\* install-error with the message of the failed step and a false result
\* otherwise; before it returns it has sent none.
FaultMessage(fault) ==
    CASE fault = "jre" -> "Failed to install JRE"
      [] fault = "butler" -> "Failed to install butler"
      [] fault = "download" -> "Failed to download PWR"
      [] fault = "spawn" -> "spawn ENOENT"
      [] fault = "unlink" -> "EPERM: operation not permitted, unlink"

C6_ExactlyOneTerminalEvent ==
    \A p \in Active :
        IF inv[p].pc = "done"
        THEN /\ inv[p].finished + inv[p].errors = 1
             /\ inv[p].finished = 1 =>
                   /\ inv[p].faults = {}
                   /\ inv[p].finishedWith = inv[p].version
                   /\ inv[p].ret = "true"
             /\ inv[p].errors = 1 =>
                   /\ \E fault \in inv[p].faults :
                         /\ inv[p].faults = {fault}
                         /\ inv[p].errMsg = FaultMessage(fault)
                   /\ inv[p].ret = "false"
        ELSE /\ inv[p].finished = 0
             /\ inv[p].errors = 0
             /\ inv[p].ret = "none"

\* the artifact could not be deleted after the patch tool had run
C6_Witness ==
    \E p \in Returned :
        /\ inv[p].errors = 1
        /\ inv[p].finished = 0
        /\ inv[p].spawns = 1
        /\ inv[p].faults = {"unlink"}
\* C7 (as stated): the client is replaced only when the SHA-256 of the
\* downloaded file equals the expected hash up to the case of the letters;
\* on a mismatch the temp file is deleted, the client is as it was before
\* the call and the error "Patch hash mismatch" is reported.
EqualIgnoringCase(a, b) == toUpperCase(a) = toUpperCase(b)

HashWasComputed == hp.pc = "done" /\ hp.downloadedHash # <<>>

MismatchMessage == "Patch hash mismatch (SHA256)"

C7_HashVerificationAsStated ==
    HashWasComputed =>
        IF EqualIgnoringCase(hp.downloadedHash, hp.version.patch_hash.s)
        THEN TRUE
        ELSE /\ ~hp.replaced
             /\ hpTemp[getTempPath(hp.version)] = 0
             /\ legacy = hp.before.legacy
             /\ hp.errors = 1
             /\ hp.errMsg = MismatchMessage

\* C7 (amended): the two hashes are compared after trimming the white space
\* around them and ignoring the case of the letters; on a mismatch the client
\* is as it was before the call, the error "Patch hash mismatch (SHA256)" is
\* reported with the result "skipped", and the deletion of the temp file is
\* attempted: the file is gone when the deletion succeeds.
C7_HashVerification ==
    HashWasComputed =>
        IF EqualIgnoringCase(trim(hp.downloadedHash),
                             trim(hp.version.patch_hash.s))
        THEN hp.errors = 1 => hp.errMsg # MismatchMessage
        ELSE /\ ~hp.replaced
             /\ legacy = hp.before.legacy
             /\ hp.errors = 1
             /\ hp.errMsg = MismatchMessage
             /\ hp.result = "skipped"
             /\ hp.unlinkTemp # "none"
             /\ hp.unlinkTemp = "ok" => hpTemp[getTempPath(hp.version)] = 0

\* a mismatch whose temp file could not be deleted
C7_Witness ==
    /\ HashWasComputed
    /\ ~EqualIgnoringCase(trim(hp.downloadedHash),
                          trim(hp.version.patch_hash.s))
    /\ hp.unlinkTemp = "failed"
    /\ hpTemp[getTempPath(hp.version)] = hp.downloaded
    /\ hp.errMsg = MismatchMessage

\* C8 (as stated): the percent of every ProgressEvent of every phase is -1
\* or lies in 0..100, and -1 is sent by a download only while no total
\* length is known.
PercentInRange(percent) == percent = NoEvent \/ percent \in (0 - 1)..100

C8_ProgressRange ==
    /\ \A p \in Procs :
          /\ \A ph \in Phases : PercentInRange(inv[p].progress[ph])
          /\ inv[p].pc = "streamPWR" /\ inv[p].progress["pwr-download"] = -1
                => ~Truthy(inv[p].totalLength)
    /\ PercentInRange(hp.progress)
    /\ hp.pc = "stream" /\ hp.progress = -1 => ~Truthy(hp.totalLength)

\* C9 (as stated): when an invocation has returned and no callback of it is
\* pending, the last ProgressEvent of every phase it started has percent 100.
C9_FinalHundred ==
    /\ \A p \in Returned :
          ~inv[p].childPending =>
              \A ph \in Phases : inv[p].progress[ph] \in {NoEvent, 100}
    /\ hp.pc = "done" => hp.progress \in {NoEvent, 100}

\* C10: whenever the platform is not win32, or the version has no patch_url
\* or no patch_hash, or the client binary is absent, the hot-patch returns
\* "skipped" at once, with no network access, no file changed, no error
\* event and no progress event.
GateCondition(version, before) ==
    \/ platform # "win32"
    \/ version.patch_url \in {"undefined", ""}
    \/ version.patch_hash \in {NoHash, Hash(<<>>)}
    \/ ~before.legacy[version.type].exists
    \/ before.legacy[version.type].client = 0

C10_HotPatchGating ==
    hp.pc # "idle" /\ GateCondition(hp.version, hp.before) =>
        /\ hp.pc = "done"
        /\ hp.result = "skipped"
        /\ hp.netCalls = 0
        /\ Files = hp.before
        /\ hp.errors = 0
        /\ hp.progress = NoEvent

\* off Windows, with a URL, a hash and a client: skipped
C10_Witness ==
    /\ hp.pc = "done"
    /\ platform # "win32"
    /\ hp.version.patch_url = "https://x/patch.exe"
    /\ hp.version.patch_hash = Hash(<<"a", "1">>)
    /\ hp.before.legacy[hp.version.type].client # 0
    /\ hp.result = "skipped"
    /\ hp.netCalls = 0
\* C11 (as stated): a failure of any of the hot-patch steps - hashing the
\* client or the downloaded file, the download, the hash comparison, the
\* replacement (deleting the client, renaming or copying the file) - is
\* reported by exactly one online-patch-error event and the call returns
\* "skipped".
HotPatchSteps ==
    {"sha256File(clientPath)", "downloadFileWithProgress",
     "sha256File(tempPath)", "hash mismatch", "unlinkSync(clientPath)",
     "renameSync", "copyFileSync"}

C11_HotPatchFailuresAsStated ==
    hp.pc = "done" /\ (hp.thrown \cup hp.swallowed) \cap HotPatchSteps # {} =>
        /\ hp.errors = 1
        /\ hp.result = "skipped"

\* C11 (amended): a failure of the download, of hashing the downloaded file,
\* of the hash comparison or of the copy that follows a failed rename is
\* caught in patchOnlineClientIfNeeded: exactly one online-patch-error event
\* with its message is sent and the call returns "skipped". A failure of
\* hashing the client, of deleting the client or the temp file, or of the
\* rename is swallowed where it occurs and sends no event. The call always
\* returns a result and no install-error is sent.
HotPatchMessages(op) ==
    CASE op = "downloadFileWithProgress" ->
             {"Failed to download patch: 404", "No response body",
              "fetch failed", "aborted", "This operation was aborted"}
      [] op = "sha256File(tempPath)" -> {"EBUSY: resource busy, open"}
      [] op = "hash mismatch" -> {"Patch hash mismatch (SHA256)"}
      [] op = "copyFileSync" -> {"EPERM: operation not permitted, copyfile"}
      [] OTHER -> {}

C11_HotPatchFailuresNonFatal ==
    /\ \A p \in Procs : inv[p].errors = 0
    /\ hp.swallowed \subseteq
          {"sha256File(clientPath)", "unlinkSync(clientPath)",
           "unlinkSync(tempPath)", "renameSync"}
    /\ IF hp.pc = "done"
       THEN IF hp.thrown # {}
            THEN /\ hp.errors = 1
                 /\ \E op \in hp.thrown :
                       /\ hp.thrown = {op}
                       /\ hp.errMsg \in HotPatchMessages(op)
                 /\ hp.result = "skipped"
            ELSE /\ hp.errors = 0
                 /\ hp.result \in {"patched", "up-to-date", "skipped"}
       ELSE hp.errors = 0 /\ hp.thrown = {}

\* the rename failed, then the copy: one error event, "skipped"
C11_Witness ==
    /\ hp.pc = "done"
    /\ "renameSync" \in hp.swallowed
    /\ hp.thrown = {"copyFileSync"}
    /\ hp.errors = 1
    /\ hp.result = "skipped"
\* C12 (as stated): when the runtime installer or the patch-tool bootstrap
\* returns no path, or the artifact download fails, the invocation spawns no
\* patch tool, writes no manifest, leaves the manifest of the install
\* directory as it was when installGame was entered, sends install-error and
\* returns false.
PrePatchFailure(p) ==
    inv[p].pc = "done" /\ inv[p].faults \cap {"jre", "butler", "download"} # {}

AbortedBeforePatch(p) ==
    /\ inv[p].spawns = 0
    /\ inv[p].manifestWrites = 0
    /\ inv[p].errors = 1
    /\ inv[p].finished = 0
    /\ inv[p].ret = "false"

C12_PrePatchFailureAsStated ==
    \A p \in Active :
        PrePatchFailure(p) =>
            /\ AbortedBeforePatch(p)
            /\ readInstallManifest(dirs, inv[p].installDir)
                  = readInstallManifest(inv[p].beforeRetire, inv[p].installDir)

\* C12 (amended): ... the invocation spawns no patch tool, writes no
\* manifest, leaves every directory as retirement left it (the manifest of
\* the install directory is the one read at the start, after retirement),
\* sends install-error and returns false.
C12_PrePatchFailureAborts ==
    \A p \in Active :
        PrePatchFailure(p) =>
            /\ AbortedBeforePatch(p)
            /\ readInstallManifest(dirs, inv[p].installDir)
                  = inv[p].installedManifest
            /\ dirs = Retire(inv[p].beforeRetire, inv[p].version)

\* the download failed after an older latest build had been retired
C12_Witness ==
    \E p \in Active :
        /\ PrePatchFailure(p)
        /\ inv[p].faults = {"download"}
        /\ inv[p].retired # "none"
        /\ inv[p].errors = 1
\* C13: when the patch tool cannot be spawned, the invocation writes no
\* manifest, sends install-error (and no install-finished) and returns
\* false; the 'close' callback that follows the 'error' callback changes
\* none of this and no file.
C13_SpawnFailureAborts ==
    \A p \in Active :
        "spawn" \in inv[p].faults =>
            /\ inv[p].pc = "done"
            /\ inv[p].manifestWrites = 0
            /\ readInstallManifest(dirs, inv[p].installDir)
                  = inv[p].installedManifest
            /\ dirs[inv[p].installDir].tool
                  = EnsureDir(Retire(inv[p].beforeRetire, inv[p].version),
                              inv[p].installDir)[inv[p].installDir].tool
            /\ inv[p].errors = 1
            /\ inv[p].errMsg = "spawn ENOENT"
            /\ inv[p].finished = 0
            /\ inv[p].ret = "false"

\* 'error' was delivered, then 'close'
C13_Witness ==
    \E p \in Returned :
        /\ "spawn" \in inv[p].faults
        /\ ~inv[p].childPending
        /\ inv[p].progress["patching"] = 100
        /\ inv[p].errors = 1
        /\ inv[p].manifestWrites = 0
\* C14 (as stated): a download that is waiting for the response or for the
\* rest of the body - of the patch artifact or of the hot-patch file -
\* eventually ends, with success or with a failure, whatever the remote does.
PwrDownloading(p) == inv[p].pc \in {"fetchPWR", "streamPWR"}

PatchDownloading == hp.pc \in {"fetch", "stream"}

C14_DownloadsTerminate ==
    /\ \A p \in Procs : PwrDownloading(p) ~> ~PwrDownloading(p)
    /\ PatchDownloading ~> ~PatchDownloading
\* What the timer of downloadFileWithProgress does bound: the wait for the
\* response of the hot-patch download.
HotPatchResponseBounded == (hp.pc = "fetch") ~> (hp.pc # "fetch")
\* C15: a numbered build directory build-N that holds a manifest recording
\* N is left exactly as it is by every step of installGame - no run of the
\* patch tool against it, no directory moved onto it, no deletion - except
\* by the patch-tool run of an invocation for build N itself that found the
\* manifest matching and a binary missing.
NumberedDirs == Types \X Builds

Immutable(d) == dirs[d].exists /\ dirs[d].manifest = d[2]

RecoveryOf(d) ==
    \E p \in Procs :
        /\ inv[p].pc = "butlerRunning"
        /\ inv[p].installDir = d
        /\ inv[p].version.build_index = d[2]
        /\ inv[p].alreadyOnThisBuild
        /\ ~(inv[p].client /\ inv[p].server)
        /\ dirs'[d].exists
        /\ dirs'[d].manifest = d[2]
        /\ dirs'[d].tool.build = d[2]
        /\ dirs'[d].origin = dirs[d].origin

C15_NumberedDirsImmutable ==
    [][\A d \in NumberedDirs :
          Immutable(d) => dirs'[d] = dirs[d] \/ RecoveryOf(d)]_vars

\* an invocation for a numbered build that is installed: finished, the
\* directory as it was
C15_Witness ==
    \E p \in Returned :
        /\ inv[p].installDir \in NumberedDirs
        /\ inv[p].alreadyOnThisBuild
        /\ inv[p].client /\ inv[p].server
        /\ inv[p].finished = 1
        /\ dirs[inv[p].installDir] = inv[p].beforeRetire[inv[p].installDir]
        /\ Immutable(inv[p].installDir)
\* C16 (as stated): when an invocation has ended with install-finished, no
\* temp_<build_index>.pwr of the target build is in the game root.
C16_NoLeftoverArtifactAsStated ==
    \A p \in Returned :
        inv[p].finished = 1 => ~tempPWR[inv[p].version.build_index].exists

\* C16 (amended): when an invocation that downloaded the artifact has ended
\* with install-finished, no temp_<build_index>.pwr of the target build is
\* in the game root, and it was deleted after the patch tool exited and
\* before the manifest was written. (An invocation that skips the patch
\* deletes nothing.)
C16_NoLeftoverArtifact ==
    \A p \in Returned :
        inv[p].finished = 1 /\ inv[p].downloads > 0 =>
            /\ ~tempPWR[inv[p].version.build_index].exists
            /\ SubSeqOf(<<"spawn", "exit", "unlink", "manifest">>, inv[p].steps)

\* after an invocation that failed, the artifact was downloaded again,
\* applied and deleted
C16_Witness ==
    \E p \in Returned :
        /\ inv[p].repeats = "error"
        /\ inv[p].finished = 1
        /\ inv[p].downloads = 1
        /\ ~tempPWR[inv[p].version.build_index].exists
\* C17 (as stated): an invocation in which nothing failed but the deletion
\* of the artifact or the restoring of the executable bit ends with
\* install-finished and, when it ran the patch tool, has written the
\* manifest.
BestEffort == {"unlink", "chmod"}

C17_BestEffortNeverEscalates ==
    \A p \in Returned :
        inv[p].faults \subseteq BestEffort =>
            /\ inv[p].finished = 1
            /\ inv[p].errors = 0
            /\ inv[p].spawns = 1 => inv[p].manifestWrites = 1

\* What holds of the executable bit: whatever ensureClientExecutable meets,
\* an invocation that reached it has written the manifest and finishes.
ChmodNeverEscalates ==
    \A p \in Returned :
        inv[p].chmod # "none" =>
            /\ inv[p].finished = 1
            /\ inv[p].errors = 0
            /\ inv[p].manifestWrites = 1
\* C18 (as stated): the client binary the hot-patch inspects and replaces is
\* the client under the install directory resolved for the version: with a
\* URL and a hash on Windows, a client that installGame materialized in that
\* directory is inspected (the step is not skipped for want of a client), and
\* the step writes nowhere else.
SkippedAtGate ==
    /\ hp.pc = "done"
    /\ hp.result = "skipped"
    /\ hp.netCalls = 0
    /\ hp.errors = 0

C18_HotPatchTargetsInstallDir ==
    /\ hp.pc # "idle"
    /\ hp.version = LaunchPatchVersion
    /\ checkClient(hp.before.dirs, LaunchVersion)
    => /\ ~SkippedAtGate
       /\ legacy = hp.before.legacy
\* C19: inside one invocation of installGame the steps come in one order:
\* retirement before install-started, the runtime install before the
\* download, the spawn of butler only on a completely downloaded artifact,
\* the deletion of the artifact and the manifest write only after butler has
\* exited, the executable bit after the manifest, install-finished last; no
\* step happens twice and none runs while another is in progress.
StepOrder ==
    <<"retire", "install-started", "installJRE", "installButler",
      "downloadPWR", "spawn", "exit", "unlink", "manifest",
      "ensureClientExecutable", "install-finished">>

Rank(name) ==
    IF \E i \in DOMAIN StepOrder : StepOrder[i] = name
    THEN CHOOSE i \in DOMAIN StepOrder : StepOrder[i] = name
    ELSE Len(StepOrder) + 1

InOrder(steps) ==
    \A i, j \in DOMAIN steps : i < j => Rank(steps[i]) < Rank(steps[j])

Downloading(p) == inv[p].pc \in {"fetchPWR", "streamPWR"}

Did(p, name) == \E i \in DOMAIN inv[p].steps : inv[p].steps[i] = name

C19_StrictSequencing ==
    \A p \in Procs :
        LET r == inv[p]
            artifact == tempPWR[r.tempPWRPath]
        IN  p \in Active =>
            /\ InOrder(r.steps)
            /\ Downloading(p) \/ r.pc = "butlerRunning" => jreInstalled
            /\ Downloading(p) => r.spawns = 0 /\ ~Did(p, "spawn")
            /\ r.pc = "butlerRunning" =>
                   /\ artifact.exists /\ artifact.complete
                   /\ r.manifestWrites = 0
                   /\ ~Did(p, "unlink")
            /\ r.manifestWrites > 0 =>
                   /\ Did(p, "exit")
                   /\ ~artifact.exists
                   /\ r.chmod # "none"
            /\ r.finished > 0 =>
                   /\ r.steps[Len(r.steps)] = "install-finished"
                   /\ r.pc = "done"
                   /\ ~r.childPending

C19_Witness ==
    \E p \in Procs : inv[p].steps = StepOrder
\* C20 (as stated): when the spawned butler exits, with whatever exit code,
\* the final patching event with percent 100 is sent, and installGame goes
\* on: the artifact is deleted, the manifest of the target build is written
\* and install-finished is sent.
ToolExited(p) == Did(p, "exit") /\ "spawn" \notin inv[p].faults

Completed(p) ==
    LET r == inv[p]
    IN  /\ r.progress["patching"] = 100
        /\ ~tempPWR[r.tempPWRPath].exists
        /\ r.manifestWrites = 1
        /\ readInstallManifest(dirs, r.installDir) = r.version.build_index
        /\ r.finished = 1
        /\ r.finishedWith = r.version
        /\ r.errors = 0

C20_ExitCodeNotFatal ==
    \A p \in Active : ToolExited(p) => Completed(p)

\* what holds of the exit code alone: when the deletion of the artifact does
\* not throw, the invocation completes whatever the exit code was
ExitCodeAloneNotFatal ==
    \A p \in Active :
        ToolExited(p) /\ "unlink" \notin inv[p].faults => Completed(p)

FinishedAfterFailedTool ==
    \E p \in Active :
        /\ ToolExited(p)
        /\ Completed(p)
        /\ ~dirs[inv[p].installDir].tool.ok
\* C21: a stdout line of butler yields a patching event iff it is a JSON
\* record that carries a type containing "progress" in any case or a numeric
\* percentage or percent, and a number is found in percentage, else percent,
\* else progress; the percent sent is that number, times 100 when it lies in
\* (0,1], clamped to [0,100] and rounded to the nearest integer. Every other
\* line sends nothing and fails nothing.
ProgressTypes == {t \in TypeValues : t \in {"progress", "Patch-Progress"}}

Recognized(l) ==
    /\ l.kind = "json"
    /\ \/ l.type \in ProgressTypes
       \/ l.percentage.isNum
       \/ l.percent.isNum

FoundNumber(l) ==
    CASE l.percentage.isNum -> l.percentage
      [] ~l.percentage.isNum /\ l.percent.isNum -> l.percent
      [] ~l.percentage.isNum /\ ~l.percent.isNum -> l.progress

\* v is in thousandths; the result is an integer percent
Forwarded(v) ==
    LET scaled == IF 0 < v /\ v <= 1000 THEN 100 * v ELSE v
        clamped == IF scaled < 0 THEN 0
                   ELSE IF scaled > 100000 THEN 100000 ELSE scaled
    IN  CHOOSE n \in 0..100 : 2 * (1000 * n - clamped) \in (0 - 999)..1000

ClaimedEvent(l) ==
    IF Recognized(l) /\ FoundNumber(l).isNum
    THEN Forwarded(FoundNumber(l).v) ELSE NoEvent

C21_TolerantDecoder ==
    [][\A p \in Procs :
          inv'[p].lines = inv[p].lines + 1 =>
              LET event == ClaimedEvent(inv'[p].line)
              IN  /\ inv'[p].lineEvent = event
                  /\ inv'[p].progress =
                         IF event = NoEvent THEN inv[p].progress
                         ELSE [inv[p].progress EXCEPT !["patching"] = event]
                  /\ inv'[p].errors = inv[p].errors
                  /\ inv'[p].pc = inv[p].pc]_vars

C21_Witness ==
    \E p \in Active :
        /\ inv[p].pc = "butlerRunning"
        /\ inv[p].line.kind = "json"
        /\ inv[p].line.type = ""
        /\ inv[p].line.percentage = NotNumber
        /\ inv[p].line.percent = Number(1000)
        /\ inv[p].progress["patching"] = 100
\* C22: each download sends a start event with current = 0 before any
\* byte-count event; when the content-length is absent or not positive every
\* event before completion has percent -1 and the completion event has
\* percent 100; within one download the reported current never decreases.
NotPositive(totalLength) == ~(totalLength.kind = "num" /\ totalLength.n > 0)

PwrProtocol(a, b) ==
    /\ a.pc = "fetchPWR" /\ b.pc = "streamPWR" =>
           /\ a.progress["pwr-download"] = NoEvent
           /\ b.current = 0
    /\ a.pc = "streamPWR" /\ b.pc = "streamPWR" =>
           /\ a.current >= 0
           /\ b.current >= a.current
    /\ b.pc = "streamPWR" /\ NotPositive(b.totalLength) =>
           b.progress["pwr-download"] = 0 - 1
    /\ a.pc = "streamPWR" /\ b.pc = "butlerRunning" =>
           b.progress["pwr-download"] = 100

PatchProtocol(a, b) ==
    /\ a.pc = "fetch" /\ b.pc = "stream" =>
           /\ a.progress = NoEvent
           /\ b.current = 0
    /\ a.pc = "stream" /\ b.pc = "stream" =>
           /\ a.current >= 0
           /\ b.current >= a.current
    /\ b.pc = "stream" /\ NotPositive(b.totalLength) => b.progress = 0 - 1
    /\ a.pc = "stream" /\ b.pc = "verify" => b.progress = 100

C22_DownloadProgressProtocol ==
    [][/\ \A p \in Procs : PwrProtocol(inv[p], inv'[p])
       /\ PatchProtocol(hp, hp')]_vars

C22_Witness ==
    \E p \in Active :
        /\ inv[p].pc = "streamPWR"
        /\ NotPositive(inv[p].totalLength)
        /\ inv[p].current > 0
        /\ inv[p].progress["pwr-download"] = 0 - 1

\* C23 (as stated): re-invoking installGame with the same version after a
\* failed invocation never skips patching while the install directory is
\* incomplete, and once every collaborator succeeds repeated re-invocation
\* ends with install-finished, the manifest recording the target build and
\* both binaries present.
Recovered ==
    \E p \in Returned :
        LET r == inv[p]
        IN  /\ r.finished = 1
            /\ readInstallManifest(dirs, r.installDir) = r.version.build_index
            /\ dirs[r.installDir].client
            /\ dirs[r.installDir].server

NeverSkipsWhileIncomplete ==
    \A p \in Returned :
        inv[p].repeats = "error" /\ inv[p].finished = 1 /\ inv[p].spawns = 0
            => /\ inv[p].alreadyOnThisBuild
               /\ dirs[inv[p].installDir].client
               /\ dirs[inv[p].installDir].server

C23_RecoveryByReinvocation ==
    /\ []NeverSkipsWhileIncomplete
    /\ Healed ~> Recovered
\* C24 (as stated): a client binary that exists when the hot-patch is called
\* exists when it has returned, whatever the result, and is the original or
\* a replacement with the expected hash; an "up-to-date" result downloads
\* nothing and changes no file.
ClientKept ==
    LET clientPath == getClientPath(hp.version)
        original == hp.before.legacy[clientPath].client
        client == legacy[clientPath].client
    IN  /\ ClientExists(legacy, clientPath)
        /\ \/ client = original
           \/ normalizeHash(sha256Hex(client))
                  = normalizeHash(hp.version.patch_hash.s)

C24_ClientNeverLost ==
    hp.pc = "done" /\ ClientExists(hp.before.legacy, getClientPath(hp.version))
        => /\ ClientKept
           /\ hp.result = "up-to-date" =>
                  /\ hp.netCalls = 0
                  /\ legacy = hp.before.legacy
                  /\ hpTemp = hp.before.hpTemp

\* what holds: the client is lost only when it was deleted and both the
\* rename and the copy failed
ClientLostOnlyByFailedCopy ==
    hp.pc = "done" /\ ClientExists(hp.before.legacy, getClientPath(hp.version))
        => ClientKept \/ "copyFileSync" \in hp.thrown
\* C25 (as stated): once an invocation of installGame has sent
\* install-finished or install-error it sends no install-progress event, in
\* whatever order the callbacks of the download stream and of butler
\* (stdout lines, 'error', 'close') are delivered.
TerminalSent(p) == inv[p].finished + inv[p].errors > 0

C25_NoEventAfterTerminal ==
    \A p \in Procs : TerminalSent(p) => inv[p].afterTerminal = 0

\* what holds: the only event after a terminal one is the patching event of
\* 'close' that follows the 'error' of a failed spawn
OnlyCloseAfterSpawnError ==
    \A p \in Procs :
        inv[p].afterTerminal > 0 =>
            /\ inv[p].afterTerminal = 1
            /\ "spawn" \in inv[p].faults
            /\ inv[p].errors = 1
            /\ inv[p].finished = 0
            /\ inv[p].progress["patching"] = 100
\* C26: two overlapping invocations of installGame on one game root that
\* target different build indices never write, read or delete each other's
\* temp artifact: butler of each is given the complete artifact that this
\* invocation downloaded, and a temp artifact changes only by a step of the
\* one invocation that targets its build index.
OwnArtifact(p) ==
    LET artifact == tempPWR[inv[p].tempPWRPath]
    IN  /\ inv[p].pc = "streamPWR" => artifact.exists /\ artifact.by = p
        /\ inv[p].pc = "butlerRunning" =>
               /\ artifact.exists
               /\ artifact.complete
               /\ artifact.by = p
               /\ artifact.build = inv[p].version.build_index
        /\ Did(p, "exit") /\ "spawn" \notin inv[p].faults =>
               dirs[inv[p].installDir].tool.build = inv[p].version.build_index

TouchedByOwner(b) ==
    tempPWR'[b] # tempPWR[b] =>
        \E p \in Active :
            /\ inv[p].version.build_index = b
            /\ inv'[p] # inv[p]
            /\ \A q \in Procs \ {p} : inv'[q] = inv[q]

C26_TempArtifactIsolation ==
    /\ [](\A p \in Active : OwnArtifact(p))
    /\ [][\A b \in Builds : TouchedByOwner(b)]_vars

C26_Witness ==
    /\ \A p \in Procs : inv[p].pc = "butlerRunning"
    /\ inv[1].version.build_index # inv[2].version.build_index
    /\ tempPWR[inv[1].tempPWRPath].by = 1
    /\ tempPWR[inv[2].tempPWRPath].by = 2
\* C27: the start of installGame moves or deletes the latest directory only
\* when the target is a release with is_latest set and the latest directory
\* holds a manifest of another build; in every other case the retirement
\* step leaves the latest directory and every numbered build directory as
\* the migration left them.
RetirementDue(before, version) ==
    /\ version.type = "release"
    /\ version.isLatest
    /\ before[getLatestDir].exists
    /\ before[getLatestDir].manifest # 0
    /\ before[getLatestDir].manifest # version.build_index

Begins(p) == inv'[p].started /\ inv'[p] # inv[p] /\ ops' = ops + 1

RetirementFrame(p) ==
    LET version == inv'[p].version
        before == MigrateDirs(dirs, legacy, version.type)
        target == getReleaseBuildDir(before[getLatestDir].manifest)
    IN  IF RetirementDue(before, version)
        THEN /\ ~dirs'[getLatestDir].exists
             /\ \A d \in DirIds \ {getLatestDir, target} : dirs'[d] = before[d]
        ELSE dirs' = before

C27_RetirementFrame ==
    [][\A p \in Procs : Begins(p) => RetirementFrame(p)]_vars

C27_Witness ==
    \E p \in Active :
        LET r == inv[p]
            before == r.beforeRetire
        IN  /\ r.steps = <<"install-started">>
            /\ r.version.type = "release"
            /\ ~r.version.isLatest
            /\ before[getLatestDir].exists
            /\ before[getLatestDir].manifest \notin {0, r.version.build_index}
            /\ dirs = before

=============================================================================
